---- MODULE Spec2Model ----
(***************************************************************************)
(* A model of the regex pipeline of this repository:                       *)
(*   infix_regex_2_postfix_regex.py  regexAddConcatOps, regexInfixToPostfix *)
(*   postfix_regex_2_nfa.py          Regex.__init__,                        *)
(*                                   Regex._removeEpsilonConnections,       *)
(*                                   Regex.match, State                     *)
(* Strings are sequences of one-character strings.  State objects are      *)
(* numbered in creation order, which stands for their identity.  Python    *)
(* iterates a set in an unspecified order: every loop over a set of        *)
(* connections picks one of its orders.                                    *)
(***************************************************************************)
EXTENDS Integers, Sequences, FiniteSets, TLC

(***************************************************************************)
(* Program constants                                                       *)
(***************************************************************************)
CONCAT_SYMBOL == ","

\* the label 'ε' of an epsilon connection (postfix_regex_2_nfa.py)
EPSILON == "eps"

(***************************************************************************)
(* Bounds of the model                                                     *)
(***************************************************************************)
MaxInfixLen == 3      \* every pattern up to this length is converted
MaxUnary == 1         \* unary operators after a literal in the operand families
MaxLitLen == 3        \* literal-only patterns sent through the whole pipeline
MaxPostfixLen == 3    \* every postfix string up to this length is built
MaxAlt == 3           \* literals in the alternation family
MaxTextLen == 3       \* every text up to this length is matched
MaxClosure == 8       \* cap on the length of the eClosure work list
MaxActive == 20       \* cap on the length of match's currentStates list

(***************************************************************************)
(* Alphabets the inputs are drawn from                                     *)
(***************************************************************************)
Lits == {"a", "b"}
AltLits == {"a", "b", "c", "d"}
UnaryOps == {"*", "+", "?"}
BinaryOps == {"|", CONCAT_SYMBOL}
InfixAlphabet == Lits \cup UnaryOps \cup {"(", ")", "|"}
PostfixAlphabet == Lits \cup UnaryOps \cup {"&", "|"}
TextAlphabet == {"a", "b", "c"}

SeqsUpTo(S, n) == UNION {[1..k -> S] : k \in 0..n}

\* the orders in which a loop may iterate the set S
Orders(S) == {f \in [1..Cardinality(S) -> S] : \A x \in S : \E k \in DOMAIN f : f[k] = x}

(***************************************************************************)
(* Fixtures of the repository's own tests                                  *)
(***************************************************************************)
testRegexIn == <<"a", "?", "b", "c", "|", "(", "d", "|", "e", "+", ")", "f">>
testRegexOut == <<"a", "?", "b", ",", "c", ",", "d", "e", "+", "|", "|", "f", ",">>
regex1 == <<"a", "b", "|", "c", "*", "&", "d", "&">>
regex2 == <<"a", "d", "|", "c", "|">>

\* a literal followed by at most MaxUnary unary operators
Operands == {<<l>> \o u : l \in Lits, u \in SeqsUpTo(UnaryOps, MaxUnary)}
Joins == {<<>>, <<"|">>}
\* x y z, each pair either adjacent (implicit concatenation) or joined by '|'
FlatInputs == {x \o j1 \o y \o j2 \o z : x \in Operands, y \in Operands, z \in Operands,
                                          j1 \in Joins, j2 \in Joins}
\* u (x y) z with single literals, each pair adjacent or joined by '|'
GroupInputs == {<<u>> \o j1 \o <<"(", x>> \o j2 \o <<y, ")">> \o j3 \o <<z>> :
                  u \in Lits, x \in Lits, y \in Lits, z \in Lits,
                  j1 \in Joins, j2 \in Joins, j3 \in Joins}
ConvertInputs == SeqsUpTo(InfixAlphabet, MaxInfixLen) \cup FlatInputs \cup GroupInputs
                   \cup {testRegexIn}

VARIABLES
  pc,               \* the position of the program
  err,              \* the exception that ended the run, "none" if none
  noConcatRegex,    \* regexAddConcatOps: its argument
  infixRegex,       \* regexInfixToPostfix: its argument
  i,                \* regexInfixToPostfix: characters consumed so far
  postfixList,      \* regexInfixToPostfix: output queue
  ops,              \* regexInfixToPostfix: operator stack, top last
  postfixRegex,     \* regexInfixToPostfix's result; Regex.__init__'s argument
  pos,              \* Regex.__init__: characters consumed so far
  frags,            \* Regex.__init__: its stack `ops` of (in, out) pairs, top last
  connections,      \* State.connections of every State created, by number
  inState,          \* Regex.inState, 0 before it is set
  outStates,        \* Regex.outStates
  statesToTraverse, \* _removeEpsilonConnections: work list
  tpos,             \* _removeEpsilonConnections: index of currentState
  eClosure,         \* _removeEpsilonConnections: closure list of currentState
  epos,             \* _removeEpsilonConnections: members of eClosure done
  newConnections,   \* _removeEpsilonConnections: connections collected
  string,           \* match: its argument
  spos,             \* match: characters consumed so far
  currentStates,    \* match: list of active states
  cpos,             \* match: members of currentStates done
  newStates,        \* match: list of states for the next character
  munch,            \* match: second result
  match             \* match: first result

convVars == <<noConcatRegex, infixRegex, i, postfixList, ops>>
buildVars == <<pos, frags>>
elimVars == <<statesToTraverse, tpos, eClosure, epos, newConnections>>
autoVars == <<connections, inState, outStates>>
matchVars == <<string, spos, currentStates, cpos, newStates, munch, match>>
vars == <<pc, err, convVars, postfixRegex, buildVars, elimVars, autoVars, matchVars>>

(***************************************************************************)
(* regexAddConcatOps                                                       *)
(***************************************************************************)
\* AddConcatAt without ')' among the characters no operator is put before
AddConcatAtBeforeBracket(s, k) ==
  <<s[k]>> \o (IF s[k] \notin {"(", "|"} /\ k + 1 <= Len(s)
                  /\ s[k + 1] \notin {"*", "+", "?", "|"}
               THEN <<CONCAT_SYMBOL>> ELSE <<>>)

\* one iteration of the loop: the character at k (1-based) and, between
\* certain combinations of characters, the concatenation operator
AddConcatAt(s, k) ==
  <<s[k]>> \o (IF s[k] \notin {"(", "|"} /\ k + 1 <= Len(s)
                  /\ s[k + 1] \notin {"*", "+", "?", ")", "|"}
               THEN <<CONCAT_SYMBOL>> ELSE <<>>)

RECURSIVE AddConcatFrom(_, _)
AddConcatFrom(s, k) == IF k > Len(s) THEN <<>> ELSE AddConcatAt(s, k) \o AddConcatFrom(s, k + 1)

regexAddConcatOps(s) == AddConcatFrom(s, 1)

(***************************************************************************)
(* The pipeline's first call: regexAddConcatOps(pattern), whose result is  *)
(* handed to regexInfixToPostfix                                           *)
(***************************************************************************)
AddConcatOps ==
  /\ pc = "addConcat"
  /\ infixRegex' = regexAddConcatOps(noConcatRegex)
  /\ i' = 0
  /\ postfixList' = <<>>
  /\ ops' = <<>>
  /\ pc' = "toPostfix"
  /\ UNCHANGED <<err, noConcatRegex, postfixRegex, buildVars, elimVars, autoVars, matchVars>>

(***************************************************************************)
(* regexInfixToPostfix, one action per branch of the loop body             *)
(***************************************************************************)
char == infixRegex[i + 1]
Top(s) == s[Len(s)]
Pop(s) == SubSeq(s, 1, Len(s) - 1)

\* InfixBinary pushing the operator without popping the one on the stack
InfixBinaryNoPop ==
  /\ pc = "toPostfix" /\ i < Len(infixRegex)
  /\ char \in {"|", CONCAT_SYMBOL}
  /\ ops' = Append(ops, char)
  /\ i' = i + 1
  /\ UNCHANGED <<pc, err, noConcatRegex, infixRegex, postfixList, postfixRegex, buildVars,
                 elimVars, autoVars, matchVars>>

\* InfixBinary with '|' binding looser than the concatenation operator: an
\* operator on the stack is popped only when the incoming one does not bind
\* tighter
InfixBinaryPrecedence ==
  /\ pc = "toPostfix" /\ i < Len(infixRegex)
  /\ char \in {"|", CONCAT_SYMBOL}
  /\ IF ops # <<>> /\ Top(ops) # "(" /\ ~(char = CONCAT_SYMBOL /\ Top(ops) = "|")
       THEN /\ postfixList' = Append(postfixList, Top(ops))
            /\ ops' = Append(Pop(ops), char)
       ELSE /\ postfixList' = postfixList
            /\ ops' = Append(ops, char)
  /\ i' = i + 1
  /\ UNCHANGED <<pc, err, noConcatRegex, infixRegex, postfixRegex, buildVars, elimVars,
                 autoVars, matchVars>>

InfixBinary ==
  /\ pc = "toPostfix" /\ i < Len(infixRegex)
  /\ char \in {"|", CONCAT_SYMBOL}
  /\ IF ops # <<>> /\ Top(ops) # "("
       THEN /\ postfixList' = Append(postfixList, Top(ops))
            /\ ops' = Append(Pop(ops), char)
       ELSE /\ postfixList' = postfixList
            /\ ops' = Append(ops, char)
  /\ i' = i + 1
  /\ UNCHANGED <<pc, err, noConcatRegex, infixRegex, postfixRegex, buildVars, elimVars,
                 autoVars, matchVars>>

InfixOpen ==
  /\ pc = "toPostfix" /\ i < Len(infixRegex)
  /\ char = "("
  /\ ops' = Append(ops, char)
  /\ i' = i + 1
  /\ UNCHANGED <<pc, err, noConcatRegex, infixRegex, postfixList, postfixRegex, buildVars,
                 elimVars, autoVars, matchVars>>

\* ops[-1] and ops.pop() raise IndexError on an empty stack, which the
\* handler turns into RuntimeError('Unmatched brackets')
InfixClose ==
  /\ pc = "toPostfix" /\ i < Len(infixRegex)
  /\ char = ")"
  /\ IF ops = <<>>
       THEN /\ pc' = "error" /\ err' = "UnmatchedBrackets"
            /\ UNCHANGED <<i, postfixList, ops>>
       ELSE IF Top(ops) # "("
         THEN /\ postfixList' = Append(postfixList, Top(ops))
              /\ IF Pop(ops) = <<>>
                   THEN /\ pc' = "error" /\ err' = "UnmatchedBrackets"
                        /\ ops' = Pop(ops)
                        /\ i' = i
                   ELSE /\ ops' = Pop(Pop(ops))
                        /\ i' = i + 1
                        /\ UNCHANGED <<pc, err>>
         ELSE /\ ops' = Pop(ops)
              /\ i' = i + 1
              /\ UNCHANGED <<pc, err, postfixList>>
  /\ UNCHANGED <<noConcatRegex, infixRegex, postfixRegex, buildVars, elimVars, autoVars,
                 matchVars>>

InfixLiteral ==
  /\ pc = "toPostfix" /\ i < Len(infixRegex)
  /\ char \notin {"|", CONCAT_SYMBOL, "(", ")"}
  /\ postfixList' = Append(postfixList, char)
  /\ i' = i + 1
  /\ UNCHANGED <<pc, err, noConcatRegex, infixRegex, ops, postfixRegex, buildVars, elimVars,
                 autoVars, matchVars>>

\* InfixReturn leaving the last operator on the stack
InfixReturnNoPop ==
  /\ pc = "toPostfix" /\ i = Len(infixRegex)
  /\ postfixRegex' = postfixList
  /\ pc' = "converted"
  /\ UNCHANGED <<err, noConcatRegex, infixRegex, i, postfixList, ops, buildVars, elimVars,
                 autoVars, matchVars>>

\* after the loop: one operator left on the stack is popped onto the queue,
\* and the queue is joined and returned
InfixReturn ==
  /\ pc = "toPostfix" /\ i = Len(infixRegex)
  /\ IF ops # <<>>
       THEN /\ postfixList' = Append(postfixList, Top(ops))
            /\ ops' = Pop(ops)
       ELSE UNCHANGED <<postfixList, ops>>
  /\ postfixRegex' = postfixList'
  /\ pc' = "converted"
  /\ UNCHANGED <<err, noConcatRegex, infixRegex, i, buildVars, elimVars, autoVars, matchVars>>

Convert == AddConcatOps \/ InfixBinary \/ InfixOpen \/ InfixClose \/ InfixLiteral \/ InfixReturn

(***************************************************************************)
(* State: a node holding a set of (value, state) connections               *)
(***************************************************************************)
addConnection(conn, s, value, t) == [conn EXCEPT ![s] = @ \cup {<<value, t>>}]

(***************************************************************************)
(* The pipeline's last call: Regex(postfixRegex)                           *)
(***************************************************************************)
Construct ==
  /\ pc = "converted"
  /\ pc' = "build"
  /\ pos' = 0
  /\ frags' = <<>>
  /\ UNCHANGED <<err, convVars, postfixRegex, elimVars, autoVars, matchVars>>

(***************************************************************************)
(* Regex.__init__, one action per branch of the loop body.  A pop from an  *)
(* empty stack raises IndexError and no Regex is constructed.              *)
(***************************************************************************)
token == postfixRegex[pos + 1]
RaiseIndexError ==
  /\ pc' = "error" /\ err' = "IndexError"
  /\ UNCHANGED <<pos, frags, connections>>

\* '&': (bIn, bOut), (aIn, aOut) = ops.pop(), ops.pop()
BuildConcat ==
  /\ pc = "build" /\ pos < Len(postfixRegex)
  /\ token = "&"
  /\ IF Len(frags) < 2 THEN RaiseIndexError
     ELSE LET b == Top(frags)
              a == Top(Pop(frags))
          IN /\ connections' = addConnection(connections, a[2], EPSILON, b[1])
             /\ frags' = Append(Pop(Pop(frags)), <<a[1], b[2]>>)
             /\ pos' = pos + 1
             /\ UNCHANGED <<pc, err>>
  /\ UNCHANGED <<convVars, postfixRegex, elimVars, inState, outStates, matchVars>>

\* BuildAlt without the connection from aIn to bIn
BuildAltNoEntry ==
  /\ pc = "build" /\ pos < Len(postfixRegex)
  /\ token = "|"
  /\ IF Len(frags) < 2 THEN RaiseIndexError
     ELSE LET b == Top(frags)
              a == Top(Pop(frags))
          IN /\ connections' = addConnection(connections, b[2], EPSILON, a[2])
             /\ frags' = Append(Pop(Pop(frags)), <<a[1], a[2]>>)
             /\ pos' = pos + 1
             /\ UNCHANGED <<pc, err>>
  /\ UNCHANGED <<convVars, postfixRegex, elimVars, inState, outStates, matchVars>>

BuildAlt ==
  /\ pc = "build" /\ pos < Len(postfixRegex)
  /\ token = "|"
  /\ IF Len(frags) < 2 THEN RaiseIndexError
     ELSE LET b == Top(frags)
              a == Top(Pop(frags))
          IN /\ connections' = addConnection(addConnection(connections, a[1], EPSILON, b[1]),
                                             b[2], EPSILON, a[2])
             /\ frags' = Append(Pop(Pop(frags)), <<a[1], a[2]>>)
             /\ pos' = pos + 1
             /\ UNCHANGED <<pc, err>>
  /\ UNCHANGED <<convVars, postfixRegex, elimVars, inState, outStates, matchVars>>

\* BuildStar pushing (aIn, aOut) as '+' does
BuildStarAsPlus ==
  /\ pc = "build" /\ pos < Len(postfixRegex)
  /\ token = "*"
  /\ IF Len(frags) < 1 THEN RaiseIndexError
     ELSE LET a == Top(frags)
          IN /\ connections' = addConnection(connections, a[2], EPSILON, a[1])
             /\ frags' = Append(Pop(frags), <<a[1], a[2]>>)
             /\ pos' = pos + 1
             /\ UNCHANGED <<pc, err>>
  /\ UNCHANGED <<convVars, postfixRegex, elimVars, inState, outStates, matchVars>>

BuildStar ==
  /\ pc = "build" /\ pos < Len(postfixRegex)
  /\ token = "*"
  /\ IF Len(frags) < 1 THEN RaiseIndexError
     ELSE LET a == Top(frags)
          IN /\ connections' = addConnection(connections, a[2], EPSILON, a[1])
             /\ frags' = Append(Pop(frags), <<a[1], a[1]>>)
             /\ pos' = pos + 1
             /\ UNCHANGED <<pc, err>>
  /\ UNCHANGED <<convVars, postfixRegex, elimVars, inState, outStates, matchVars>>

BuildPlus ==
  /\ pc = "build" /\ pos < Len(postfixRegex)
  /\ token = "+"
  /\ IF Len(frags) < 1 THEN RaiseIndexError
     ELSE LET a == Top(frags)
          IN /\ connections' = addConnection(connections, a[2], EPSILON, a[1])
             /\ frags' = Append(Pop(frags), <<a[1], a[2]>>)
             /\ pos' = pos + 1
             /\ UNCHANGED <<pc, err>>
  /\ UNCHANGED <<convVars, postfixRegex, elimVars, inState, outStates, matchVars>>

BuildOptional ==
  /\ pc = "build" /\ pos < Len(postfixRegex)
  /\ token = "?"
  /\ IF Len(frags) < 1 THEN RaiseIndexError
     ELSE LET a == Top(frags)
          IN /\ connections' = addConnection(connections, a[1], EPSILON, a[2])
             /\ frags' = Append(Pop(frags), <<a[1], a[2]>>)
             /\ pos' = pos + 1
             /\ UNCHANGED <<pc, err>>
  /\ UNCHANGED <<convVars, postfixRegex, elimVars, inState, outStates, matchVars>>

\* any other character: start, end = State(), State()
BuildLiteral ==
  /\ pc = "build" /\ pos < Len(postfixRegex)
  /\ token \notin {"&", "|", "*", "+", "?"}
  /\ LET start == Len(connections) + 1
         end == Len(connections) + 2
     IN /\ connections' = connections \o <<{<<token, end>>}, {}>>
        /\ frags' = Append(frags, <<start, end>>)
  /\ pos' = pos + 1
  /\ UNCHANGED <<pc, err, convVars, postfixRegex, elimVars, inState, outStates, matchVars>>

\* self.inState, _ = ops.pop(), then the call of _removeEpsilonConnections
\* up to the first iteration of its loop
BuildFinish ==
  /\ pc = "build" /\ pos = Len(postfixRegex)
  /\ IF frags = <<>>
       THEN /\ pc' = "error" /\ err' = "IndexError"
            /\ UNCHANGED <<frags, inState, elimVars>>
       ELSE /\ inState' = Top(frags)[1]
            /\ frags' = Pop(frags)
            /\ statesToTraverse' = <<Top(frags)[1]>>
            /\ tpos' = 0 /\ eClosure' = <<>> /\ epos' = 0 /\ newConnections' = {}
            /\ pc' = "eliminate"
            /\ err' = err
  /\ UNCHANGED <<convVars, postfixRegex, pos, connections, outStates, matchVars>>

Build == BuildConcat \/ BuildAlt \/ BuildStar \/ BuildPlus \/ BuildOptional \/ BuildLiteral
           \/ BuildFinish

(***************************************************************************)
(* The loop of Regex.__init__ as a function of the postfix string: the     *)
(* connections and the fragment stack after the characters from k on, ok   *)
(* FALSE once a pop has failed                                             *)
(***************************************************************************)
RECURSIVE initLoop(_, _, _)
initLoop(pf, k, acc) ==
  IF k > Len(pf) \/ ~acc.ok THEN acc
  ELSE LET c == pf[k]
           st == acc.frags
           b == Top(st)
           a == Top(Pop(st))
       IN initLoop(pf, k + 1,
            IF c \in {"&", "|"} /\ Len(st) < 2 THEN [acc EXCEPT !.ok = FALSE]
            ELSE IF c \in {"*", "+", "?"} /\ Len(st) < 1 THEN [acc EXCEPT !.ok = FALSE]
            ELSE IF c = "&"
              THEN [acc EXCEPT !.conn = addConnection(@, a[2], EPSILON, b[1]),
                               !.frags = Append(Pop(Pop(st)), <<a[1], b[2]>>)]
            ELSE IF c = "|"
              THEN [acc EXCEPT !.conn = addConnection(addConnection(@, a[1], EPSILON, b[1]),
                                                      b[2], EPSILON, a[2]),
                               !.frags = Append(Pop(Pop(st)), <<a[1], a[2]>>)]
            ELSE IF c = "*"
              THEN [acc EXCEPT !.conn = addConnection(@, b[2], EPSILON, b[1]),
                               !.frags = Append(Pop(st), <<b[1], b[1]>>)]
            ELSE IF c = "+"
              THEN [acc EXCEPT !.conn = addConnection(@, b[2], EPSILON, b[1]),
                               !.frags = Append(Pop(st), <<b[1], b[2]>>)]
            ELSE IF c = "?"
              THEN [acc EXCEPT !.conn = addConnection(@, b[1], EPSILON, b[2]),
                               !.frags = Append(Pop(st), <<b[1], b[2]>>)]
            ELSE [acc EXCEPT !.conn = @ \o <<{<<c, Len(@) + 2>>}, {}>>,
                             !.frags = Append(st, <<Len(acc.conn) + 1, Len(acc.conn) + 2>>)])

\* the automaton __init__ hands to _removeEpsilonConnections
rawAutomaton(pf) == initLoop(pf, 1, [conn |-> <<>>, frags |-> <<>>, ok |-> TRUE])
rawConnections(pf) == rawAutomaton(pf).conn
rawInState(pf) == Top(rawAutomaton(pf).frags)[1]

(***************************************************************************)
(* Regex._removeEpsilonConnections                                         *)
(***************************************************************************)
Range(s) == {s[k] : k \in DOMAIN s}

\* closureLoop that also keeps an epsilon connection among the new connections
RECURSIVE closureLoopKeepEpsilon(_, _, _)
closureLoopKeepEpsilon(ord, k, acc) ==
  IF k > Len(ord) THEN acc
  ELSE LET value == ord[k][1]
           connectedState == ord[k][2]
       IN closureLoopKeepEpsilon(ord, k + 1,
            IF value = EPSILON
              THEN [acc EXCEPT !.ec = Append(@, connectedState),
                               !.nc = @ \cup {<<value, connectedState>>}]
              ELSE [acc EXCEPT !.nc = @ \cup {<<value, connectedState>>},
                               !.stt = IF connectedState \in Range(@) THEN @
                                       ELSE Append(@, connectedState)])

\* closureLoop that leaves the loop at the first epsilon connection
RECURSIVE closureLoopStopAtEpsilon(_, _, _)
closureLoopStopAtEpsilon(ord, k, acc) ==
  IF k > Len(ord) THEN acc
  ELSE LET value == ord[k][1]
           connectedState == ord[k][2]
       IN IF value = EPSILON
            THEN [acc EXCEPT !.ec = Append(@, connectedState)]
            ELSE closureLoopStopAtEpsilon(ord, k + 1,
                   [acc EXCEPT !.nc = @ \cup {<<value, connectedState>>},
                               !.stt = IF connectedState \in Range(@) THEN @
                                       ELSE Append(@, connectedState)])

\* the loop over state.connections, taken in the order ord, from its k-th
\* connection on; acc holds eClosure (ec), newConnections (nc) and
\* statesToTraverse (stt)
RECURSIVE closureLoop(_, _, _)
closureLoop(ord, k, acc) ==
  IF k > Len(ord) THEN acc
  ELSE LET value == ord[k][1]
           connectedState == ord[k][2]
       IN closureLoop(ord, k + 1,
            IF value = EPSILON
              THEN [acc EXCEPT !.ec = Append(@, connectedState)]
              ELSE [acc EXCEPT !.nc = @ \cup {<<value, connectedState>>},
                               !.stt = IF connectedState \in Range(@) THEN @
                                       ELSE Append(@, connectedState)])

\* for currentState in statesToTraverse: eClosure, newConnections = ...
ElimNext ==
  /\ pc = "eliminate" /\ eClosure = <<>>
  /\ tpos < Len(statesToTraverse)
  /\ tpos' = tpos + 1
  /\ eClosure' = <<statesToTraverse[tpos + 1]>>
  /\ epos' = 0
  /\ newConnections' = {}
  /\ UNCHANGED <<pc, err, convVars, postfixRegex, buildVars, statesToTraverse, autoVars,
                 matchVars>>

\* for state in eClosure: the whole loop over state.connections
ElimClosure ==
  /\ pc = "eliminate" /\ eClosure # <<>>
  /\ epos < Len(eClosure)
  /\ Len(eClosure) <= MaxClosure
  /\ \E ord \in Orders(connections[eClosure[epos + 1]]) :
       LET r == closureLoop(ord, 1, [ec |-> eClosure, nc |-> newConnections,
                                     stt |-> statesToTraverse])
       IN /\ eClosure' = r.ec
          /\ newConnections' = r.nc
          /\ statesToTraverse' = r.stt
  /\ epos' = epos + 1
  /\ UNCHANGED <<pc, err, convVars, postfixRegex, buildVars, tpos, autoVars, matchVars>>

\* ElimClose adding the new connections to the state's old ones
ElimCloseMerge ==
  /\ pc = "eliminate" /\ eClosure # <<>>
  /\ epos = Len(eClosure)
  /\ outStates' = IF newConnections = {} THEN outStates \cup {statesToTraverse[tpos]}
                  ELSE outStates
  /\ connections' = [connections EXCEPT ![statesToTraverse[tpos]] = @ \cup newConnections]
  /\ eClosure' = <<>>
  /\ epos' = 0
  /\ newConnections' = {}
  /\ UNCHANGED <<pc, err, convVars, postfixRegex, buildVars, statesToTraverse, tpos, inState,
                 matchVars>>

\* after the closure: the end-state rule and the new connections
ElimClose ==
  /\ pc = "eliminate" /\ eClosure # <<>>
  /\ epos = Len(eClosure)
  /\ outStates' = IF newConnections = {} THEN outStates \cup {statesToTraverse[tpos]}
                  ELSE outStates
  /\ connections' = [connections EXCEPT ![statesToTraverse[tpos]] = newConnections]
  /\ eClosure' = <<>>
  /\ epos' = 0
  /\ newConnections' = {}
  /\ UNCHANGED <<pc, err, convVars, postfixRegex, buildVars, statesToTraverse, tpos, inState,
                 matchVars>>

\* return outStates; __init__ returns with it
ElimReturn ==
  /\ pc = "eliminate" /\ eClosure = <<>>
  /\ tpos = Len(statesToTraverse)
  /\ pc' = "compiled"
  /\ statesToTraverse' = <<>>
  /\ tpos' = 0
  /\ UNCHANGED <<err, convVars, postfixRegex, buildVars, eClosure, epos, newConnections,
                 autoVars, matchVars>>

Eliminate == ElimNext \/ ElimClosure \/ ElimClose \/ ElimReturn

(***************************************************************************)
(* Regex.match                                                             *)
(***************************************************************************)
Texts == SeqsUpTo(TextAlphabet, MaxTextLen)
           \cup {<<"a", "c", "c", "c", "d">>, <<"b", "c", "c", "c", "d">>, <<"a", "d">>,
                 <<"d">>, <<"d", "c">>}

\* matchLoop following every connection that does not carry the character,
\* not only the epsilon connections
RECURSIVE matchLoopFollowAll(_, _, _, _, _)
matchLoopFollowAll(ord, k, c, idx, acc) ==
  IF k > Len(ord) THEN acc
  ELSE LET value == ord[k][1]
           connectedState == ord[k][2]
       IN matchLoopFollowAll(ord, k + 1, c, idx,
            IF value = c
              THEN [acc EXCEPT !.m = idx + 1, !.ns = Append(@, connectedState)]
              ELSE [acc EXCEPT !.cs = Append(@, connectedState)])

\* matchLoop setting munch to the index of the character, not to index + 1
RECURSIVE matchLoopMunchIndex(_, _, _, _, _)
matchLoopMunchIndex(ord, k, c, idx, acc) ==
  IF k > Len(ord) THEN acc
  ELSE LET value == ord[k][1]
           connectedState == ord[k][2]
       IN matchLoopMunchIndex(ord, k + 1, c, idx,
            IF value = c
              THEN [acc EXCEPT !.m = idx, !.ns = Append(@, connectedState)]
              ELSE IF value = EPSILON
                THEN [acc EXCEPT !.cs = Append(@, connectedState)]
                ELSE acc)

\* the loop over state.connections while reading the character c at
\* 0-based index idx; acc holds currentStates (cs), newStates (ns), munch (m)
RECURSIVE matchLoop(_, _, _, _, _)
matchLoop(ord, k, c, idx, acc) ==
  IF k > Len(ord) THEN acc
  ELSE LET value == ord[k][1]
           connectedState == ord[k][2]
       IN matchLoop(ord, k + 1, c, idx,
            IF value = c
              THEN [acc EXCEPT !.m = idx + 1, !.ns = Append(@, connectedState)]
              ELSE IF value = EPSILON
                THEN [acc EXCEPT !.cs = Append(@, connectedState)]
                ELSE acc)

\* the loop over state.connections of the accept check, which follows
\* epsilon connections
RECURSIVE acceptLoop(_, _, _)
acceptLoop(ord, k, cs) ==
  IF k > Len(ord) THEN cs
  ELSE acceptLoop(ord, k + 1, IF ord[k][1] = EPSILON THEN Append(cs, ord[k][2]) ELSE cs)

\* a call of match on a constructed Regex
MatchCall ==
  /\ pc = "compiled"
  /\ string' \in Texts
  /\ match' = FALSE
  /\ munch' = 0
  /\ currentStates' = <<inState>>
  /\ spos' = 0 /\ cpos' = 0 /\ newStates' = <<>>
  /\ pc' = "match"
  /\ UNCHANGED <<err, convVars, postfixRegex, buildVars, elimVars, autoVars>>

\* for state in currentStates: the whole loop over state.connections
MatchState ==
  /\ pc = "match" /\ spos < Len(string)
  /\ cpos < Len(currentStates)
  /\ Len(currentStates) <= MaxActive
  /\ \E ord \in Orders(connections[currentStates[cpos + 1]]) :
       LET r == matchLoop(ord, 1, string[spos + 1], spos,
                          [cs |-> currentStates, ns |-> newStates, m |-> munch])
       IN /\ currentStates' = r.cs
          /\ newStates' = r.ns
          /\ munch' = r.m
  /\ cpos' = cpos + 1
  /\ UNCHANGED <<pc, err, convVars, postfixRegex, buildVars, elimVars, autoVars, string, spos,
                 match>>

\* MatchAdvance keeping the active states when no connection carried the
\* character
MatchAdvanceKeepStates ==
  /\ pc = "match" /\ spos < Len(string)
  /\ cpos = Len(currentStates)
  /\ currentStates' = IF newStates = <<>> THEN currentStates ELSE newStates
  /\ newStates' = <<>>
  /\ cpos' = 0
  /\ spos' = spos + 1
  /\ UNCHANGED <<pc, err, convVars, postfixRegex, buildVars, elimVars, autoVars, string, munch,
                 match>>

\* currentStates = newStates, and the next character
MatchAdvance ==
  /\ pc = "match" /\ spos < Len(string)
  /\ cpos = Len(currentStates)
  /\ currentStates' = newStates
  /\ newStates' = <<>>
  /\ cpos' = 0
  /\ spos' = spos + 1
  /\ UNCHANGED <<pc, err, convVars, postfixRegex, buildVars, elimVars, autoVars, string, munch,
                 match>>

\* the accept check on one state of currentStates: an out-state ends the
\* loop and match returns (True, munch)
MatchAccept ==
  /\ pc = "match" /\ spos = Len(string)
  /\ cpos < Len(currentStates)
  /\ Len(currentStates) <= MaxActive
  /\ IF currentStates[cpos + 1] \in outStates
       THEN /\ match' = TRUE
            /\ pc' = "matched"
            /\ currentStates' = <<>> /\ cpos' = 0 /\ spos' = 0
       ELSE /\ \E ord \in Orders(connections[currentStates[cpos + 1]]) :
                 currentStates' = acceptLoop(ord, 1, currentStates)
            /\ cpos' = cpos + 1
            /\ UNCHANGED <<pc, match, spos>>
  /\ UNCHANGED <<err, convVars, postfixRegex, buildVars, elimVars, autoVars, string, newStates,
                 munch>>

\* MatchReturn recording the states the call ended in as out-states of the
\* Regex
MatchReturnSharedStates ==
  /\ pc = "match" /\ spos = Len(string)
  /\ cpos = Len(currentStates)
  /\ pc' = "matched"
  /\ outStates' = outStates \cup Range(currentStates)
  /\ currentStates' = <<>> /\ cpos' = 0 /\ spos' = 0
  /\ UNCHANGED <<err, convVars, postfixRegex, buildVars, elimVars, connections, inState,
                 string, newStates, munch, match>>

\* the accept check found no out-state: match returns (False, munch)
MatchReturn ==
  /\ pc = "match" /\ spos = Len(string)
  /\ cpos = Len(currentStates)
  /\ pc' = "matched"
  /\ currentStates' = <<>> /\ cpos' = 0 /\ spos' = 0
  /\ UNCHANGED <<err, convVars, postfixRegex, buildVars, elimVars, autoVars, string, newStates,
                 munch, match>>

\* the caller has taken the result (the tests compare it and call again)
MatchResultTaken ==
  /\ pc = "matched"
  /\ pc' = "compiled"
  /\ string' = <<>> /\ munch' = 0 /\ match' = FALSE
  /\ UNCHANGED <<err, convVars, postfixRegex, buildVars, elimVars, autoVars, spos,
                 currentStates, cpos, newStates>>

Match == MatchCall \/ MatchState \/ MatchAdvance \/ MatchAccept \/ MatchReturn
           \/ MatchResultTaken

(***************************************************************************)
(* The conversion alone                                                    *)
(***************************************************************************)
InitRest ==
  /\ err = "none"
  /\ infixRegex = <<>> /\ i = 0 /\ postfixList = <<>> /\ ops = <<>>
  /\ pos = 0 /\ frags = <<>>
  /\ connections = <<>> /\ inState = 0 /\ outStates = {}
  /\ statesToTraverse = <<>> /\ tpos = 0 /\ eClosure = <<>> /\ epos = 0
  /\ newConnections = {}
  /\ string = <<>> /\ spos = 0 /\ currentStates = <<>> /\ cpos = 0 /\ newStates = <<>>
  /\ munch = 0 /\ match = FALSE

InitConvert ==
  /\ pc = "addConcat"
  /\ noConcatRegex \in ConvertInputs
  /\ postfixRegex = <<>>
  /\ InitRest

NextConvert == Convert

SpecConvert == InitConvert /\ [][NextConvert]_vars

(***************************************************************************)
(* The whole program: a pattern goes through the pipeline, or a postfix    *)
(* string is given to Regex directly as the repository's tests do; the     *)
(* constructed Regex is then matched against texts, call after call        *)
(***************************************************************************)
\* literal-only patterns, a pattern with an open bracket and the test's pattern
PipelineInputs == SeqsUpTo(Lits, MaxLitLen) \cup {<<"(", "a">>, testRegexIn}

\* x1 x2 | x3 | ... of distinct literals
RECURSIVE AltPostfix(_, _)
AltPostfix(xs, k) == IF k > Len(xs) THEN <<>>
                     ELSE (IF k = 1 THEN <<xs[1]>> ELSE <<xs[k], "|">>) \o AltPostfix(xs, k + 1)
DistinctSeqs(S, n) == {xs \in [1..n -> S] : \A j, k \in 1..n : xs[j] = xs[k] => j = k}
AltInputs == {AltPostfix(xs, 1) : xs \in UNION {DistinctSeqs(AltLits, n) : n \in 2..MaxAlt}}

PostfixInputs == SeqsUpTo(PostfixAlphabet, MaxPostfixLen) \cup AltInputs \cup {regex1, regex2}

Init ==
  /\ \/ /\ pc = "addConcat"
        /\ noConcatRegex \in PipelineInputs
        /\ postfixRegex = <<>>
     \/ /\ pc = "build"
        /\ noConcatRegex = <<>>
        /\ postfixRegex \in PostfixInputs
  /\ InitRest

Next == Convert \/ Construct \/ Build \/ Eliminate \/ Match

Spec == Init /\ [][Next]_vars

\* the scheduling of a sequential program: a step that can be taken is taken
FairSpec == Spec /\ WF_vars(Next)

(***************************************************************************)
(* Vocabulary of the properties                                            *)
(***************************************************************************)
IsLiteralChar(c) == c \notin UnaryOps \cup BinaryOps \cup {"(", ")", "&"}
IsLiteralOnly(s) == \A k \in DOMAIN s : IsLiteralChar(s[k])
IsProperPrefix(t, p) == Len(t) < Len(p) /\ t = SubSeq(p, 1, Len(t))
DiffersAtSomePosition(t, p) == \E k \in DOMAIN t \cap DOMAIN p : t[k] # p[k]
Returned == pc = "matched"
Pipeline == noConcatRegex # <<>>

RECURSIVE LeadingRun(_, _)
LeadingRun(t, c) == IF t # <<>> /\ Head(t) = c THEN 1 + LeadingRun(Tail(t), c) ELSE 0

\* C1: for a non-empty literal-only pattern p sent through the whole
\* pipeline, match(p) returns (True, len(p)), and match(t) returns
\* matched = False for every proper prefix t of p and every t that differs
\* from p at some position.
C1_LiteralPatternMatchesItself ==
  (Returned /\ Pipeline /\ IsLiteralOnly(noConcatRegex)) =>
     /\ string = noConcatRegex => (match = TRUE /\ munch = Len(noConcatRegex))
     /\ (IsProperPrefix(string, noConcatRegex)
           \/ DiffersAtSomePosition(string, noConcatRegex)) => match = FALSE

\* C2: the automaton of a* accepts "", "a", "aa" and "aaa", and for any
\* text its munch is the length of the text's leading run of 'a'.
C2_StarAcceptsRuns ==
  (Returned /\ postfixRegex = <<"a", "*">>) =>
     /\ string \in {<<>>, <<"a">>, <<"a", "a">>, <<"a", "a", "a">>} => match = TRUE
     /\ munch = LeadingRun(string, "a")

\* C3: the automaton of a+ rejects the empty text and accepts "a" and "aa".
C3_PlusAcceptsOneOrMore ==
  (Returned /\ postfixRegex = <<"a", "+">>) =>
     /\ string = <<>> => match = FALSE
     /\ string \in {<<"a">>, <<"a", "a">>} => match = TRUE

\* C4: the automaton of a? accepts both the empty text and "a".
C4_OptionalAcceptsBoth ==
  (Returned /\ postfixRegex = <<"a", "?">>) =>
     (string \in {<<>>, <<"a">>} => match = TRUE)

\* C5: the automaton the test builds from 'ab|c*&d&' accepts "acccd",
\* "bcccd" and "ad" and rejects "a" and "ab".
C5_Regex1Fixture ==
  (Returned /\ postfixRegex = regex1) =>
     /\ string \in {<<"a", "c", "c", "c", "d">>, <<"b", "c", "c", "c", "d">>, <<"a", "d">>}
          => match = TRUE
     /\ string \in {<<"a">>, <<"a", "b">>} => match = FALSE

C5_Witness ==
  /\ Returned /\ postfixRegex = regex1
  /\ string = <<"b", "c", "c", "c", "d">> /\ match = TRUE /\ munch = 5

\* x1 x2 | x3 | ... xn | with n >= 2 distinct literals
IsAltPostfix(pf) ==
  /\ Len(pf) >= 3 /\ Len(pf) % 2 = 1
  /\ IsLiteralChar(pf[1])
  /\ \A k \in 1..(Len(pf) \div 2) : IsLiteralChar(pf[2 * k]) /\ pf[2 * k + 1] = "|"
  /\ \A j, k \in DOMAIN pf : (pf[j] = pf[k] /\ pf[j] # "|") => j = k
AltLiterals(pf) == Range(pf) \ {"|"}

\* C6: for an alternation of n >= 2 distinct single literals, match accepts
\* exactly the one-character texts x1..xn: any other character and any
\* text of two or more characters is rejected.
C6_AlternationOfLiterals ==
  (Returned /\ IsAltPostfix(postfixRegex)) =>
     (match = TRUE <=> (Len(string) = 1 /\ string[1] \in AltLiterals(postfixRegex)))

C6_Witness ==
  /\ Returned /\ postfixRegex = regex2
  /\ string = <<"c">> /\ match = TRUE

\* the number of '(' of s left open by its first k characters
RECURSIVE OpenAfter(_, _)
OpenAfter(s, k) ==
  IF k = 0 THEN 0
  ELSE IF s[k] = "(" THEN OpenAfter(s, k - 1) + 1
  ELSE IF s[k] = ")" /\ OpenAfter(s, k - 1) > 0 THEN OpenAfter(s, k - 1) - 1
  ELSE OpenAfter(s, k - 1)
HasUnmatchedOpen(s) == OpenAfter(s, Len(s)) > 0

\* C7: for a pattern with a '(' that no ')' matches, regexInfixToPostfix
\* never returns a postfix string and never emits a '(' into its output.
C7_UnmatchedOpenFails ==
  HasUnmatchedOpen(noConcatRegex) => (pc # "converted" /\ "(" \notin Range(postfixList))

\* a literal followed by unary operators
IsOperand(s) == /\ s # <<>> /\ IsLiteralChar(s[1])
                /\ \A k \in 2..Len(s) : s[k] \in UnaryOps
BinPositions(s) == {k \in DOMAIN s : s[k] \in BinaryOps}
Least(S) == CHOOSE k \in S : \A j \in S : k <= j
Greatest(S) == CHOOSE k \in S : \A j \in S : j <= k
ParenFree(s) == \A k \in DOMAIN s : s[k] \notin {"(", ")"}

\* s is x o1 y o2 z, parenthesis-free
IsFlat(s) ==
  /\ ParenFree(s) /\ Cardinality(BinPositions(s)) = 2
  /\ LET p == Least(BinPositions(s))
         q == Greatest(BinPositions(s))
     IN /\ IsOperand(SubSeq(s, 1, p - 1))
        /\ IsOperand(SubSeq(s, p + 1, q - 1))
        /\ IsOperand(SubSeq(s, q + 1, Len(s)))
\* x y o1 z o2
FlatPostfix(s) ==
  LET p == Least(BinPositions(s))
      q == Greatest(BinPositions(s))
  IN SubSeq(s, 1, p - 1) \o SubSeq(s, p + 1, q - 1) \o <<s[p]>>
       \o SubSeq(s, q + 1, Len(s)) \o <<s[q]>>

\* s is u o1 ( x o3 y ) o2 z with operands u, x, y, z
IsGrouped(s) ==
  /\ Cardinality({k \in DOMAIN s : s[k] = "("}) = 1
  /\ Cardinality({k \in DOMAIN s : s[k] = ")"}) = 1
  /\ LET l == CHOOSE k \in DOMAIN s : s[k] = "("
         r == CHOOSE k \in DOMAIN s : s[k] = ")"
     IN /\ 2 < l /\ l < r /\ r + 1 < Len(s)
        /\ s[l - 1] \in BinaryOps /\ IsOperand(SubSeq(s, 1, l - 2))
        /\ s[r + 1] \in BinaryOps /\ IsOperand(SubSeq(s, r + 2, Len(s)))
        /\ LET g == SubSeq(s, l + 1, r - 1)
           IN /\ Cardinality(BinPositions(g)) = 1
              /\ IsOperand(SubSeq(g, 1, Least(BinPositions(g)) - 1))
              /\ IsOperand(SubSeq(g, Least(BinPositions(g)) + 1, Len(g)))
\* u x y o3 o1 z o2: the group's postfix x y o3 stands where an operand would
GroupedPostfix(s) ==
  LET l == CHOOSE k \in DOMAIN s : s[k] = "("
      r == CHOOSE k \in DOMAIN s : s[k] = ")"
      g == SubSeq(s, l + 1, r - 1)
      m == Least(BinPositions(g))
  IN SubSeq(s, 1, l - 2) \o SubSeq(g, 1, m - 1) \o SubSeq(g, m + 1, Len(g)) \o <<g[m]>>
       \o <<s[l - 1]>> \o SubSeq(s, r + 2, Len(s)) \o <<s[r + 1]>>

\* C8: '|' and the concatenation marker are resolved at equal precedence,
\* left to right: x o1 y o2 z becomes x y o1 z o2 whatever o1 and o2 are, a
\* parenthesised group is emitted as a single operand, and the test's
\* pattern "a?bc|(d|e+)f" becomes "a?b,c,de+||f,".
C8_EqualPrecedenceLeftToRight ==
  pc = "converted" =>
     /\ IsFlat(infixRegex) => postfixRegex = FlatPostfix(infixRegex)
     /\ IsGrouped(infixRegex) => postfixRegex = GroupedPostfix(infixRegex)
     /\ noConcatRegex = testRegexIn => postfixRegex = testRegexOut

C8_Witness ==
  /\ pc = "converted" /\ IsFlat(infixRegex)
  /\ infixRegex[Least(BinPositions(infixRegex))] = "|"
  /\ infixRegex[Greatest(BinPositions(infixRegex))] = CONCAT_SYMBOL
  /\ postfixRegex = FlatPostfix(infixRegex)

HasForeignChar(t, pf) == \E k \in DOMAIN t : t[k] \notin Range(pf)

\* C9: match is total on constructed automatons: every call returns, without
\* raising, a pair of a boolean and a number, and a text with a character
\* that is not in the pattern is not matched.
C9_MatchIsTotal ==
  /\ (pc = "match") ~> (pc = "matched")
  /\ [](pc \in {"match", "matched"} => err = "none")
  /\ [](Returned => (match \in BOOLEAN /\ munch \in 0..Len(string)))
  /\ []((Returned /\ HasForeignChar(string, postfixRegex)) => match = FALSE)

C9_Witness ==
  /\ Returned /\ err = "none"
  /\ string = <<"a", "c">> /\ postfixRegex = <<"a", "+">>
  /\ match = FALSE /\ munch = 1

\* the fragments an operator of the postfix string pops
Arity(c) == IF c \in {"&", "|"} THEN 2 ELSE IF c \in UnaryOps THEN 1 ELSE 0

\* C10: construction fails when an operator pops from an empty or too short
\* fragment stack, and when more than one fragment is left after the last
\* token; no automaton is produced in either case.
C10_MalformedPostfixFails ==
  [][/\ (pc = "build" /\ pos < Len(postfixRegex) /\ Len(frags) < Arity(token))
          => (pc' = "error" /\ inState' = 0)
     /\ (pc = "build" /\ pos = Len(postfixRegex) /\ Len(frags) # 1)
          => (pc' = "error" /\ inState' = 0)]_vars

\* a concatenation operator belongs between positions k and k + 1 of s
MarkerAfter(s, k) ==
  /\ k < Len(s)
  /\ s[k] \notin {"(", "|"}
  /\ s[k + 1] \notin {"*", "+", "?", ")", "|"}
MarkersBefore(s, k) == Cardinality({j \in 1..(k - 1) : MarkerAfter(s, j)})

\* C12: regexAddConcatOps returns its input with exactly one marker between
\* positions i and i+1 if and only if the character at i is neither '(' nor
\* '|' and the character at i+1 is none of '*', '+', '?', ')', '|'; nothing
\* else is added, removed or reordered, and the empty input gives the empty
\* output.
C12_ConcatOpsInserted ==
  pc # "addConcat" =>
     /\ Len(infixRegex) = Len(noConcatRegex) + MarkersBefore(noConcatRegex, Len(noConcatRegex) + 1)
     /\ \A k \in DOMAIN noConcatRegex :
          /\ infixRegex[k + MarkersBefore(noConcatRegex, k)] = noConcatRegex[k]
          /\ MarkerAfter(noConcatRegex, k)
               => infixRegex[k + MarkersBefore(noConcatRegex, k) + 1] = CONCAT_SYMBOL

C12_Witness ==
  /\ pc = "toPostfix"
  /\ noConcatRegex = <<"a", ")", "b">>
  /\ infixRegex = <<"a", ")", CONCAT_SYMBOL, "b">>

Count(c, s) == Cardinality({k \in DOMAIN s : s[k] = c})
NoAdjacentBinaryOps(st) ==
  \A k \in 1..(Len(st) - 1) : ~(st[k] \in BinaryOps /\ st[k + 1] \in BinaryOps)

\* C13: processing a ')' either raises the unmatched-bracket error or removes
\* exactly one '(' from the operator stack: the stack never holds two
\* adjacent binary operators, so the second pop removes a '(' and never a
\* binary operator (every operator that leaves the stack goes to the
\* output), and a ')' with no '(' on the stack always raises.
C13_CloseBracketPopsOneOpen ==
  /\ [](NoAdjacentBinaryOps(ops))
  /\ [][(pc = "toPostfix" /\ i < Len(infixRegex) /\ char = ")") =>
          /\ \/ pc' = "error" /\ err' = "UnmatchedBrackets"
             \/ /\ pc' = "toPostfix"
                /\ Count("(", ops') = Count("(", ops) - 1
          /\ \A o \in BinaryOps : Count(o, ops') + Count(o, postfixList')
                                    = Count(o, ops) + Count(o, postfixList)
          /\ "(" \notin Range(ops) => pc' = "error"]_vars

C13_Witness ==
  /\ pc = "toPostfix" /\ i > 0 /\ infixRegex[i] = ")"
  /\ postfixList # <<>> /\ Top(postfixList) \in BinaryOps
  /\ ops # <<>> /\ Top(ops) \in BinaryOps

Brackets(s) == Count("(", s) + Count(")", s)

\* C14 as stated, on the inputs whose brackets are all matched: for every
\* input on which regexInfixToPostfix returns, every binary operator of the
\* input appears exactly once in the output and the output has the same
\* length as the input.
C14_OutputLengthEqualsInput ==
  (pc = "converted" /\ ~HasUnmatchedOpen(infixRegex)) =>
     /\ Len(postfixRegex) = Len(infixRegex)
     /\ \A o \in BinaryOps : Count(o, postfixRegex) = Count(o, infixRegex)

\* C14 amended: for every input on which regexInfixToPostfix returns, the
\* output is no longer than the input and holds no binary operator more
\* often than the input; when every '(' of the input is closed, every binary
\* operator of the input appears exactly once in the output and the output
\* has the length of the input less its brackets (the same length when the
\* input has no bracket).
C14_OutputDropsBrackets ==
  pc = "converted" =>
     /\ Len(postfixRegex) <= Len(infixRegex)
     /\ \A o \in BinaryOps : Count(o, postfixRegex) <= Count(o, infixRegex)
     /\ ~HasUnmatchedOpen(infixRegex) =>
          /\ Len(postfixRegex) = Len(infixRegex) - Brackets(infixRegex)
          /\ \A o \in BinaryOps : Count(o, postfixRegex) = Count(o, infixRegex)

C14_Witness ==
  /\ pc = "converted"
  /\ infixRegex = <<"a", "|", "(", "b", CONCAT_SYMBOL, "a", ")", "|", "b">>
  /\ postfixRegex = <<"a", "b", "a", CONCAT_SYMBOL, "|", "b", "|">>


(***************************************************************************)
(* Vocabulary of the elimination and matching claims, on sets of states    *)
(***************************************************************************)
States == 1..Len(connections)
Compiled == pc \in {"compiled", "match", "matched"}

\* the states reachable from the set S along epsilon connections of conn
RECURSIVE EpsilonClosure(_, _)
EpsilonClosure(conn, S) ==
  LET N == S \cup {t \in DOMAIN conn : \E m \in S : <<EPSILON, t>> \in conn[m]}
  IN IF N = S THEN S ELSE EpsilonClosure(conn, N)

\* the union of the non-epsilon connections of the closure of s
ClosureConnections(conn, s) ==
  UNION {{c \in conn[m] : c[1] # EPSILON} : m \in EpsilonClosure(conn, {s})}

\* the states reachable from the set S along any connection of conn
RECURSIVE ReachableStates(_, _)
ReachableStates(conn, S) ==
  LET N == S \cup {t \in DOMAIN conn : \E m \in S : \E c \in conn[m] : c[2] = t}
  IN IF N = S THEN S ELSE ReachableStates(conn, N)

\* the states some path labelled by the first k characters of text leads to
RECURSIVE ActiveAfter(_, _, _, _)
ActiveAfter(conn, S, text, k) ==
  IF k = 0 THEN S
  ELSE LET P == ActiveAfter(conn, S, text, k - 1)
       IN {t \in DOMAIN conn : \E m \in P : <<text[k], t>> \in conn[m]}

\* the length of the longest prefix of text that labels a path from s
LongestAdvance(conn, s, text) ==
  Greatest({k \in 0..Len(text) : ActiveAfter(conn, {s}, text, k) # {}})

Raw == rawConnections(postfixRegex)

\* the states whose pass through the work-list loop is complete
Processed ==
  {statesToTraverse[k] : k \in 1..(IF eClosure = <<>> THEN tpos ELSE tpos - 1)}

(***************************************************************************)
(* C15: epsilon elimination terminates on every automaton the builder      *)
(* makes: a closure never holds one state more often than there are        *)
(* states, and every elimination that starts comes to its return           *)
(***************************************************************************)
C15_EliminationTerminates ==
  /\ [](pc = "eliminate" => \A m \in States : Count(m, eClosure) <= Len(connections))
  /\ (pc = "eliminate") ~> (pc = "compiled")

(***************************************************************************)
(* C16: once elimination has returned, no state reachable from the entry   *)
(* state has an epsilon connection, and every such state without a         *)
(* connection is an out-state                                              *)
(***************************************************************************)
C16_NoEpsilonAfterElimination ==
  Compiled =>
    \A m \in ReachableStates(connections, {inState}) :
      /\ \A c \in connections[m] : c[1] # EPSILON
      /\ connections[m] = {} => m \in outStates

C16_Witness ==
  /\ pc = "compiled"
  /\ postfixRegex = <<"a", "b", "|">>
  /\ \E m \in States : <<EPSILON, inState>> \in Raw[m] \/ <<EPSILON, m>> \in Raw[inState]
  /\ outStates # {}

(***************************************************************************)
(* C17: a state the work-list loop has finished with was entered in the    *)
(* list once, holds the non-epsilon connections of its epsilon-closure in  *)
(* the automaton as built, and is an out-state exactly when there are      *)
(* none; a state not yet processed is as built                             *)
(***************************************************************************)
C17_ClosureOfRawAutomaton ==
  /\ pc = "eliminate" =>
       /\ \A j, k \in DOMAIN statesToTraverse :
            statesToTraverse[j] = statesToTraverse[k] => j = k
       /\ \A m \in States :
            IF m \in Processed
              THEN /\ connections[m] = ClosureConnections(Raw, m)
                   /\ m \in outStates <=> ClosureConnections(Raw, m) = {}
              ELSE /\ connections[m] = Raw[m]
                   /\ m \notin outStates
  /\ Compiled =>
       \A m \in ReachableStates(connections, {inState}) :
         /\ connections[m] = ClosureConnections(Raw, m)
         /\ m \in outStates <=> ClosureConnections(Raw, m) = {}

C17_Witness ==
  /\ pc = "eliminate"
  /\ postfixRegex = <<"a", "b", "|">>
  /\ eClosure = <<>> /\ tpos = 1
  /\ connections[inState] # Raw[inState]
  /\ Cardinality(connections[inState]) = 2


(***************************************************************************)
(* C18: the munch match returns is the length of the longest prefix of     *)
(* the text that labels a path from the entry state, so it lies between 0  *)
(* and the length of the text; and once currentStates is empty no step of  *)
(* the call changes munch                                                  *)
(***************************************************************************)
C18_MunchIsLongestAdvance ==
  /\ [](Returned =>
          /\ munch = LongestAdvance(connections, inState, string)
          /\ 0 <= munch /\ munch <= Len(string))
  /\ [][(pc = "match" /\ currentStates = <<>> /\ cpos = 0) => munch' = munch]_vars

C18_Witness ==
  /\ Returned
  /\ postfixRegex = <<"a", "b", "&">>
  /\ string = <<"a", "a", "b">>
  /\ munch = 1 /\ match = FALSE

(***************************************************************************)
(* C20: a call that returns True returns the length of the text as munch   *)
(***************************************************************************)
C20_TrueOnlyOnWholeText ==
  Returned => /\ match = TRUE => munch = Len(string)
              /\ munch < Len(string) => match = FALSE

C20_Witness ==
  /\ Returned
  /\ postfixRegex = <<"a", "b", "&">>
  /\ string = <<"a", "b">>
  /\ match = TRUE /\ munch = 2


closedConnections(pf) ==
  [m \in DOMAIN rawConnections(pf) |-> ClosureConnections(rawConnections(pf), m)]

matchResult(pf, text) ==
  LET conn == closedConnections(pf)
      out == {m \in DOMAIN conn : conn[m] = {}}
  IN <<ActiveAfter(conn, {rawInState(pf)}, text, Len(text)) \cap out # {},
       LongestAdvance(conn, rawInState(pf), text)>>

C11_ResultIndependentOfOrder ==
  Returned => <<match, munch>> = matchResult(postfixRegex, string)

C11_Witness ==
  /\ Returned
  /\ postfixRegex = <<"a", "b", "|">>
  /\ Cardinality(connections[inState]) = 2
  /\ string = <<"b">>
  /\ match = TRUE /\ munch = 1

====
